---------------------------- MODULE Spec2Model ----------------------------
(***************************************************************************)
(* Redis-backed middleware of apps/backend: the store client wrapper       *)
(* (services/redis.ts), the rate-limit / cache / session / invalidation    *)
(* guards (middleware/redis.ts) and the pub/sub relay.                     *)
(*                                                                         *)
(* The backing store is modelled as a key space with per-key expiry; one   *)
(* store command is one atomic step (ioredis issues the commands of one    *)
(* connection in order), and an await between two commands of a handler    *)
(* is a point where other requests and the clock may interleave.           *)
(***************************************************************************)
EXTENDS Integers, Sequences, FiniteSets, Bags, TLC

(***************************************************************************)
(* Bounds of the model                                                     *)
(***************************************************************************)
MaxLimit == 2        \* limits range over 1..MaxLimit
MaxWindow == 2       \* windows / ttls range over 1..MaxWindow seconds
MaxInflight == 2     \* concurrent rateLimit calls between read and write
MaxRequests == 1     \* concurrent requests inside a guard

Min(a, b) == IF a < b THEN a ELSE b
Max(a, b) == IF a > b THEN a ELSE b

(***************************************************************************)
(* Key space                                                               *)
(***************************************************************************)
IPs == {"ip1"}

\* the key the service-level callers count under (middleware/redis.ts:160)
TestKeys == {"test:rate:limit"}

\* the rate-limit guards of the router, by the route they guard
\* (routes/redis.routes.ts:8, 149)
Guards == {"health", "stats"}

\* middleware/redis.ts:8   const key = `rate_limit:${req.ip}`
RateLimitKey(guard, ip) == "rate_limit:" \o ip

\* the user-id header of a request, when it carries one
UserIds == {"u1"}

\* the guard apiRateLimit(...) of an API route
ApiGuards == {"api"}

AllGuards == Guards \cup ApiGuards

\* middleware/redis.ts:32   const key = `api_rate_limit:${userId}`
ApiRateLimitKey(userId) == "api_rate_limit:" \o userId

RateKeys == TestKeys \cup {RateLimitKey(g, ip) : g \in Guards, ip \in IPs}
                \cup {ApiRateLimitKey(u) : u \in UserIds \cup IPs}

\* the request urls (req.originalUrl: path and query) behind the cache guard
URLs == {"/api/data", "/api/data?page=2"}

Methods == {"GET", "POST"}

\* the patterns invalidateCache is set up with: a url, or a glob
Patterns == URLs \cup {"/api/*"}

\* middleware/redis.ts:54   const key = `cache:${req.originalUrl}`
CacheKey(method, url) == "cache:" \o url

\* the key as it would be if invalidateCache left the prefix out
InvalidateKeyWithoutPrefix(pattern) == pattern

\* middleware/redis.ts:105   const key = `cache:${pattern}`
InvalidateKey(pattern) == "cache:" \o pattern

CacheKeys == {CacheKey(m, u) : m \in Methods, u \in URLs}
                \cup {InvalidateKey(q) : q \in Patterns}

\* the ids sessions are kept under
SessionIds == {"test:user", "u1"}

\* services/redis.ts:150   `session:${userId}`
SessionKey(userId) == "session:" \o userId

SessionKeys == {SessionKey(id) : id \in SessionIds}

\* the channels of the publish / subscribe relay
Channels == {"test:channel", "news"}

AllKeys == RateKeys \cup CacheKeys \cup SessionKeys

VARIABLES
    store,      \* key -> entry of the backing store
    storeUp,    \* FALSE while every store command fails (timeout / error)
    limit,      \* the limit the service-level callers pass to rateLimit
    window,     \* the window the service-level callers pass to rateLimit
    flight,     \* bag of rateLimit calls between their get and their set
    hist,       \* per counter key: what happened since the key was last fresh
    age,        \* per counter key: seconds since the key was last written
    last,       \* the rateLimit call that returned most recently
    lastCount,  \* the getRateLimitCount call that returned most recently
    guardLimit, \* guard -> the limit it was set up with
    mounted,    \* the middlewares set up on the route the requests go to
    callsTo,    \* guard -> requests it has handled in the current window
    lastGuard,  \* the guard invocation that ended most recently
    lastRun,    \* what the middleware that ended most recently called
    cacheTtl,   \* the ttl the cache guard was set up with
    pending,    \* bag of requests the cache guard passed on to the handler
    cached,     \* url -> the body the guard last stored and that is still due
    storedBy,   \* url -> the method of the request that body answered
    invalidated,\* url -> invalidated and not stored again since
    unhandled,  \* a promise was rejected with nothing handling it
    lastCache,  \* the request behind the cache guard answered most recently
    saved,      \* session id -> the document saved last and still due
    lastLoad,   \* the getUserSession call that ended most recently
    lastResponse, \* the response of the session route that answered last
    subscribed, \* the channels the subscriber connection is subscribed to
    listeners,  \* the 'message' listeners of the subscriber connection
    handlers,   \* channel -> bag of the handlers subscribed and not removed
    order,      \* channel -> the same handlers in the order they subscribed
    lastPublish \* the publish that ended most recently and its deliveries

storeVars == <<store, storeUp>>
limiterVars == <<limit, window, flight, hist, age, last, lastCount>>
guardVars == <<guardLimit, mounted, callsTo, lastGuard, lastRun>>
cacheVars == <<cacheTtl, pending, cached, storedBy, invalidated, unhandled,
               lastCache>>
sessionVars == <<saved, lastLoad, lastResponse>>
pubsubVars == <<subscribed, listeners, handlers, order, lastPublish>>
vars == <<store, storeUp, limit, window, flight, hist, age, last, lastCount,
          guardLimit, mounted, callsTo, lastGuard, lastRun,
          cacheTtl, pending, cached, storedBy, invalidated, unhandled,
          lastCache,
          saved, lastLoad, lastResponse,
          subscribed, listeners, handlers, order, lastPublish>>

(***************************************************************************)
(* The store: GET / SET / SETEX / DEL and expiry                           *)
(***************************************************************************)
Null == "<null>"

Absent == [present |-> FALSE, val |-> Null, ttl |-> 0, expires |-> FALSE]

\* services/redis.ts:59-61
get(st, key) ==
    IF key \in DOMAIN st /\ st[key].present THEN st[key].val ELSE Null

\* SETEX refuses a non-positive expire time; `if (ttl)` sends 0 to SET
setThrows(ttl) == ttl < 0

\* set as it would be if the ttl were dropped and every key written by SET
setWithoutExpiry(st, key, value, ttl) ==
    [st EXCEPT ![key] = [present |-> TRUE, val |-> value, ttl |-> 0,
                         expires |-> FALSE]]

\* set as it would be if a key that is there kept the time it has left
setKeepingTtl(st, key, value, ttl) ==
    IF st[key].present /\ st[key].expires
    THEN [st EXCEPT ![key].val = value]
    ELSE [st EXCEPT ![key] = [present |-> TRUE, val |-> value, ttl |-> ttl,
                              expires |-> ttl # 0]]

\* services/redis.ts:51-57
set(st, key, value, ttl) ==
    IF ttl # 0
    THEN [st EXCEPT ![key] = [present |-> TRUE, val |-> value, ttl |-> ttl,
                              expires |-> TRUE]]
    ELSE [st EXCEPT ![key] = [present |-> TRUE, val |-> value, ttl |-> 0,
                              expires |-> FALSE]]

\* del as it would be if it removed nothing
delNothing(st, key) == st

\* services/redis.ts:63-65
del(st, key) ==
    IF key \in DOMAIN st THEN [st EXCEPT ![key] = Absent] ELSE st

\* one second passes in the store: every expiring key loses a second of its
\* time to live and is removed when none is left
Expire(st) ==
    [k \in DOMAIN st |->
        IF st[k].present /\ st[k].expires
        THEN IF st[k].ttl <= 1 THEN Absent ELSE [st[k] EXCEPT !.ttl = @ - 1]
        ELSE st[k]]

Expiring(st, k) == st[k].present /\ st[k].expires /\ st[k].ttl <= 1

(***************************************************************************)
(* JavaScript values the limiter computes with                             *)
(***************************************************************************)
NaN == -1

Numbers == 0..(MaxLimit + 1)

\* a string is truthy unless it is null or empty
Truthy(s) == s # Null /\ s # ""

\* parseInt(current): the integer a decimal string denotes, NaN otherwise
parseInt(s) ==
    IF \E n \in Numbers : ToString(n) = s
    THEN CHOOSE n \in Numbers : ToString(n) = s
    ELSE NaN

\* (count + 1).toString()
toString(n) == IF n = NaN THEN "NaN" ELSE ToString(n)

\* the increment as it would be if the count were written back unchanged
plusZero(n) == n

\* services/redis.ts:170   count + 1
plusOne(n) == IF n = NaN THEN NaN ELSE n + 1

\* services/redis.ts:164   const count = current ? parseInt(current) : 0
countOf(current) == IF Truthy(current) THEN parseInt(current) ELSE 0

\* the comparison as it would be if the limit were never looked at
neverExceeded(count, lim) == FALSE

\* the comparison as it would be with > in place of >=
exceededOffByOne(count, lim) == count # NaN /\ count > lim

\* services/redis.ts:166   if (count >= limit) (false whenever count is NaN)
exceeded(count, lim) == count # NaN /\ count >= lim

(***************************************************************************)
(* RedisService.rateLimit, services/redis.ts:162-172                       *)
(***************************************************************************)
InFlightOn(key) ==
    LET on == {c \in BagToSet(flight) : c.key = key}
    IN  IF on = {} THEN 0
        ELSE BagCardinality([c \in on |-> flight[c]])

\* What happened on a counter key since it was last fresh (absent, no call in
\* flight): calls that returned (counted while they were serialized), calls
\* admitted, whether every call so far ran alone, the largest number of calls
\* in flight at once, and the admitted calls of the window before (0, 1, 2 for
\* more) and whether one of its calls was rejected.
FreshHist == [calls |-> 0, admitted |-> 0, serial |-> TRUE, peak |-> 0,
              prev |-> 0, rejected |-> FALSE, prevRejected |-> FALSE]

CallCap == MaxLimit + 2
AdmitCap == 40

NoCall == [key |-> "", result |-> FALSE, n |-> 0, serial |-> FALSE,
           afterWindow |-> FALSE, prev |-> 0, prevRejected |-> FALSE,
           stored |-> Null]

\* a rateLimit call returns `result`; n is its ordinal among the calls that
\* returned on the key since the key was fresh. The details are recorded for
\* serialized calls only.
Returned(key, result, afterWindow, h, st) ==
    IF h.serial
    THEN [key |-> key, result |-> result, n |-> Min(h.calls + 1, CallCap),
          serial |-> TRUE, afterWindow |-> afterWindow,
          prev |-> IF afterWindow THEN h.prev ELSE 0,
          prevRejected |-> afterWindow /\ h.prevRejected,
          stored |-> get(st, key)]
    ELSE [NoCall EXCEPT !.key = key, !.result = result]

Counted(h, admitted) ==
    [h EXCEPT !.calls = IF h.serial THEN Min(@ + 1, CallCap) ELSE 0,
              !.admitted = IF admitted THEN Min(@ + 1, AdmitCap) ELSE @,
              !.rejected = @ \/ ~admitted]

Room == BagCardinality(flight) < MaxInflight

\* the history is kept for the keys of the service-level callers
Tracked(key) == key \in TestKeys

\* services/redis.ts:163-168: the get has answered. A call that finds the limit
\* reached returns false; any other goes on to its set.
RateLimitGet(key, lim, win, via, before) ==
    LET current == get(store, key)
        count == countOf(current)
        others == InFlightOn(key)
        h == IF Tracked(key)
             THEN [hist[key] EXCEPT !.serial = @ /\ others = 0,
                                    !.calls = IF others = 0 THEN @ ELSE 0,
                                    !.peak = Max(@, others + 1)]
             ELSE FreshHist
        elapsed == /\ Tracked(key)
                   /\ h.serial
                   /\ h.admitted + h.prev >= 1
                   /\ age[key] >= win
    IN  IF exceeded(count, lim)
        THEN /\ last' = IF Tracked(key)
                        THEN Returned(key, FALSE, elapsed, h, store)
                        ELSE last
             /\ hist' = IF Tracked(key)
                        THEN [hist EXCEPT ![key] = Counted(h, FALSE)]
                        ELSE hist
             /\ UNCHANGED flight
        ELSE /\ flight' = flight (+) SetToBag({[key |-> key, count |-> count,
                                                window |-> win, via |-> via,
                                                before |-> before,
                                                afterWindow |-> elapsed]})
             /\ hist' = IF Tracked(key) THEN [hist EXCEPT ![key] = h] ELSE hist
             /\ UNCHANGED last

\* services/redis.ts:170-171: the set of count + 1 with the window as ttl has
\* answered, and the call returns true.
RateLimitSet(c) ==
    /\ store' = set(store, c.key, toString(plusOne(c.count)), c.window)
    /\ IF Tracked(c.key)
       THEN /\ last' = Returned(c.key, TRUE,
                                c.afterWindow /\ hist[c.key].serial,
                                hist[c.key], store')
            /\ hist' = [hist EXCEPT ![c.key] = Counted(@, TRUE)]
            /\ age' = [age EXCEPT ![c.key] = 0]
       ELSE UNCHANGED <<last, hist, age>>

\* a service-level caller awaits redisService.rateLimit(key, limit, window); a
\* store failure rejects the call and leaves the store as it is
CallRateLimit(key) ==
    /\ Room
    /\ IF storeUp
       THEN RateLimitGet(key, limit, window, "service", 0)
       ELSE UNCHANGED <<flight, hist, last>>
    /\ UNCHANGED <<store, storeUp, limit, window, age, lastCount, guardVars,
                   cacheVars, sessionVars, pubsubVars>>

(***************************************************************************)
(* RedisService.getRateLimitCount, services/redis.ts:174-177               *)
(***************************************************************************)
NoCount == [key |-> "", value |-> 0, present |-> FALSE, serial |-> FALSE,
            admitted |-> 0]

\* the count as it would be without the test for a missing value
parseIntOfAnything(st, key) == parseInt(get(st, key))

\* line 175-176: count ? parseInt(count) : 0
getRateLimitCount(st, key) == countOf(get(st, key))

\* a caller awaits redisService.getRateLimitCount(key); recorded with it are
\* whether the key held a value and, while the calls on the key have run one
\* at a time, how many of them the window has admitted
GetRateLimitCount(key) ==
    /\ storeUp
    /\ lastCount' = [key |-> key, value |-> getRateLimitCount(store, key),
                     present |-> store[key].present,
                     serial |-> hist[key].serial,
                     admitted |-> IF hist[key].serial
                                  THEN hist[key].admitted ELSE 0]
    /\ UNCHANGED <<store, storeUp, limit, window, flight, hist, age, last,
                   guardVars, cacheVars, sessionVars, pubsubVars>>

(***************************************************************************)
(* The rate-limit guard, middleware/redis.ts:5-25                          *)
(***************************************************************************)
NoGuard == [guard |-> "", outcome |-> "", before |-> 0, failed |-> FALSE]

CallsCap == MaxLimit + 1

\* the catch block as it would be if it answered the error itself
catchAnswers500 == "500"

\* what the catch block of the guard does with a store error (line 19-23)
rateLimitCatch == "next"

\* the same in apiRateLimit (line 43-46)
apiRateLimitCatch == "next"

guardCatch(g) == IF g \in ApiGuards THEN apiRateLimitCatch ELSE rateLimitCatch

\* line 11-18: 429 when the call is not allowed, next() otherwise
rateLimitOutcome(allowed) == IF allowed THEN "next" ELSE "429"

Ended(guard, outcome, before, failed) ==
    [guard |-> guard, outcome |-> outcome, before |-> before, failed |-> failed]

\* the middlewares middleware/redis.ts exports (line 5, 28, 51, 79, 100, 117)
Middlewares == {"rateLimit", "apiRateLimit", "cache", "sessionMiddleware",
                "invalidateCache", "redisHealthCheck"}

\* what an invocation of a middleware did with its request: its calls of
\* next() and the responses it sent, in the order it made them
NoRun == [guard |-> "", calls |-> <<>>]

Ran(guard, calls) == [guard |-> guard, calls |-> calls]

\* the middleware a guard of the router is an instance of (line 5, line 28)
GuardKind(g) == IF g \in ApiGuards THEN "apiRateLimit" ELSE "rateLimit"

\* the calls as they would be if line 12 sent the 429 without returning
rateLimitWithoutReturn(allowed) ==
    IF allowed THEN <<"next">> ELSE <<"429", "next">>

\* line 11-18: return res.status(429).json(...) when the call is not
\* allowed, next() otherwise
rateLimitCalls(allowed) == <<rateLimitOutcome(allowed)>>

\* line 8-9 and, for a request over the limit, 11-16
RateLimitGuard(g, ip) ==
    /\ BagCardinality(flight) < MaxRequests
    /\ LET key == RateLimitKey(g, ip)
           before == callsTo[g]
       IN  /\ callsTo' = [callsTo EXCEPT ![g] = Min(@ + 1, CallsCap)]
           /\ IF storeUp
              THEN /\ RateLimitGet(key, guardLimit[g], window, g, before)
                   /\ lastGuard' =
                        IF exceeded(countOf(get(store, key)), guardLimit[g])
                        THEN Ended(g, rateLimitOutcome(FALSE), before, FALSE)
                        ELSE lastGuard
                   /\ lastRun' =
                        IF exceeded(countOf(get(store, key)), guardLimit[g])
                        THEN Ran(GuardKind(g), rateLimitCalls(FALSE))
                        ELSE lastRun
              ELSE /\ lastGuard' = Ended(g, rateLimitCatch, before, TRUE)
                   /\ lastRun' = Ran(GuardKind(g), <<rateLimitCatch>>)
                   /\ UNCHANGED <<flight, hist, last>>
    /\ UNCHANGED <<store, storeUp, limit, window, age, lastCount, guardLimit,
                   mounted,
                   cacheVars, sessionVars, pubsubVars>>

\* middleware/redis.ts:31   req.headers['user-id'] as string || req.ip
ApiIdentity(header, ip) == IF Truthy(header) THEN header ELSE ip

\* apiRateLimit, middleware/redis.ts:28-48
ApiRateLimitGuard(g, header, ip) ==
    /\ BagCardinality(flight) < MaxRequests
    /\ LET key == ApiRateLimitKey(ApiIdentity(header, ip))
           before == callsTo[g]
       IN  /\ callsTo' = [callsTo EXCEPT ![g] = Min(@ + 1, CallsCap)]
           /\ IF storeUp
              THEN /\ RateLimitGet(key, guardLimit[g], window, g, before)
                   /\ lastGuard' =
                        IF exceeded(countOf(get(store, key)), guardLimit[g])
                        THEN Ended(g, rateLimitOutcome(FALSE), before, FALSE)
                        ELSE lastGuard
                   /\ lastRun' =
                        IF exceeded(countOf(get(store, key)), guardLimit[g])
                        THEN Ran(GuardKind(g), rateLimitCalls(FALSE))
                        ELSE lastRun
              ELSE /\ lastGuard' = Ended(g, apiRateLimitCatch, before, TRUE)
                   /\ lastRun' = Ran(GuardKind(g), <<apiRateLimitCatch>>)
                   /\ UNCHANGED <<flight, hist, last>>
    /\ UNCHANGED <<store, storeUp, limit, window, age, lastCount, guardLimit,
                   mounted,
                   cacheVars, sessionVars, pubsubVars>>

\* the set of a call in flight answers (or fails), and the call returns to its
\* caller: line 18 or line 19-23 of the guard
RateLimitWrite(c) ==
    /\ BagIn(c, flight)
    /\ flight' = flight (-) SetToBag({c})
    /\ IF storeUp /\ ~setThrows(c.window)
       THEN /\ RateLimitSet(c)
            /\ lastGuard' = IF c.via \in AllGuards
                            THEN Ended(c.via, rateLimitOutcome(TRUE),
                                       c.before, FALSE)
                            ELSE lastGuard
            /\ lastRun' = IF c.via \in AllGuards
                          THEN Ran(GuardKind(c.via), rateLimitCalls(TRUE))
                          ELSE lastRun
       ELSE /\ lastGuard' = IF c.via \in AllGuards
                            THEN Ended(c.via, guardCatch(c.via), c.before, TRUE)
                            ELSE lastGuard
            /\ lastRun' = IF c.via \in AllGuards
                          THEN Ran(GuardKind(c.via), <<guardCatch(c.via)>>)
                          ELSE lastRun
            /\ UNCHANGED <<store, hist, age, last>>
    /\ UNCHANGED <<storeUp, limit, window, lastCount, guardLimit, mounted,
                   callsTo,
                   cacheVars, sessionVars, pubsubVars>>

(***************************************************************************)
(* JSON.stringify and JSON.parse on the bodies the handlers answer with    *)
(***************************************************************************)
JsObject(name) == [t |-> "object", v |-> name]
JsString(str) == [t |-> "string", v |-> str]
JsNumber(n) == [t |-> "number", v |-> ToString(n)]
JsNull == [t |-> "null", v |-> ""]
SyntaxError == [t |-> "SyntaxError", v |-> ""]

\* { userId: '123', email: 'test@example.com' } (middleware/redis.ts:153)
SessionData == JsObject("sessionData")

\* { error: '...' }, the body of a handler's res.status(500).json(...)
ErrorBody == JsObject("error")

JsonValues == {SessionData, JsObject("empty"), ErrorBody, JsString(""),
               JsNumber(0), JsNull}

\* the text as it would be with String(data) in place of JSON.stringify(data)
StringOf(d) ==
    CASE d.t = "object" -> "[object Object]"
      [] d.t = "string" -> d.v
      [] d.t = "number" -> d.v
      [] OTHER -> "null"

\* the JSON text of a value
JsonText(d) ==
    CASE d = SessionData ->
            "{\"userId\":\"123\",\"email\":\"test@example.com\"}"
      [] d = JsObject("empty") -> "{}"
      [] d = ErrorBody -> "{\"error\":\"Failed to get cache value\"}"
      [] d.t = "string" -> "\"" \o d.v \o "\""
      [] d.t = "number" -> d.v
      [] OTHER -> "null"

JSONstringify(d) == JsonText(d)

\* the value a JSON text denotes; a text that is no JSON throws
JSONparse(text) ==
    IF \E d \in JsonValues : JsonText(d) = text
    THEN CHOOSE d \in JsonValues : JsonText(d) = text
    ELSE SyntaxError

(***************************************************************************)
(* The cache guard, middleware/redis.ts:51-76, and invalidateCache, 100-114 *)
(***************************************************************************)
NoBody == [t |-> "none", v |-> ""]

\* the bodies the wrapped handlers answer with
Payloads == {SessionData, JsNull, ErrorBody}

NoAnswer == [by |-> "", failed |-> FALSE, afterInvalidate |-> FALSE,
             due |-> FALSE, same |-> FALSE, own |-> TRUE]

\* a request the guard passed on: whether res.json was overridden (line 65),
\* and what was known when the guard read the store
Passed(method, url, key, override, failed) ==
    [method |-> method, url |-> url, key |-> key, override |-> override, failed |-> failed,
     afterInvalidate |-> invalidated[url], due |-> cached[url] # NoBody]

\* line 53-75: the get, the answer from the cache on a hit, next() otherwise
CacheGuard(method, url) ==
    /\ BagCardinality(pending) < MaxRequests
    /\ LET key == CacheKey(method, url)
           found == get(store, key)
       IN  IF ~storeUp
           THEN \* line 71-73: the get threw, next() without the override
                /\ pending' = pending (+) SetToBag({Passed(method, url, key, FALSE, TRUE)})
                /\ lastRun' = Ran("cache", <<"next">>)
                /\ UNCHANGED lastCache
           ELSE IF Truthy(found)
           THEN IF JSONparse(found) = SyntaxError
                THEN /\ pending' = pending (+)
                                     SetToBag({Passed(method, url, key, FALSE, FALSE)})
                     /\ lastRun' = Ran("cache", <<"next">>)
                     /\ UNCHANGED lastCache
                ELSE \* line 58: res.json(JSON.parse(cached))
                     /\ lastCache' = [by |-> "cache", failed |-> FALSE,
                                      afterInvalidate |-> invalidated[url],
                                      due |-> cached[url] # NoBody,
                                      same |-> JSONparse(found) = cached[url],
                                      own |-> storedBy[url] = method]
                     /\ lastRun' = Ran("cache", <<"200">>)
                     /\ UNCHANGED pending
           ELSE \* line 62-70: override res.json, next()
                /\ pending' = pending (+) SetToBag({Passed(method, url, key, TRUE, FALSE)})
                /\ lastRun' = Ran("cache", <<"next">>)
                /\ UNCHANGED lastCache
    /\ UNCHANGED <<store, storeUp, limiterVars, guardLimit, mounted, callsTo,
                   lastGuard,
                   cacheTtl, cached, storedBy, invalidated, unhandled,
                   sessionVars, pubsubVars>>

\* the wrapped handler answers res.json(data); with the override in place
\* (line 65-68) the set is issued, not awaited, and the body is sent
HandlerRespond(p, data) ==
    /\ BagIn(p, pending)
    /\ pending' = pending (-) SetToBag({p})
    /\ lastCache' = [by |-> "handler", failed |-> p.failed,
                     afterInvalidate |-> p.afterInvalidate,
                     due |-> p.due, same |-> FALSE, own |-> TRUE]
    /\ IF p.override
       THEN IF storeUp /\ ~setThrows(cacheTtl)
            THEN /\ store' = set(store, p.key, JSONstringify(data), cacheTtl)
                 /\ cached' = [cached EXCEPT ![p.url] = data]
                 /\ storedBy' = [storedBy EXCEPT ![p.url] = p.method]
                 /\ invalidated' = [invalidated EXCEPT ![p.url] = FALSE]
                 /\ UNCHANGED unhandled
            ELSE /\ unhandled' = TRUE
                 /\ UNCHANGED <<store, cached, storedBy, invalidated>>
       ELSE UNCHANGED <<store, cached, storedBy, invalidated, unhandled>>
    /\ UNCHANGED <<storeUp, limiterVars, guardVars, cacheTtl,
                   sessionVars, pubsubVars>>

\* line 102-112: del of `cache:${pattern}`, then next() (line 108); next()
\* from the catch when the del threw (line 109-112)
InvalidateCache(pattern) ==
    /\ IF storeUp
       THEN /\ store' = del(store, InvalidateKey(pattern))
            /\ invalidated' = [u \in URLs |-> u = pattern \/ invalidated[u]]
            /\ cached' = [u \in URLs |-> IF u = pattern THEN NoBody ELSE cached[u]]
            /\ storedBy' = [u \in URLs |-> IF u = pattern THEN "" ELSE storedBy[u]]
            /\ lastRun' = Ran("invalidateCache", <<"next">>)
       ELSE /\ lastRun' = Ran("invalidateCache", <<"next">>)
            /\ UNCHANGED <<store, invalidated, cached, storedBy>>
    /\ UNCHANGED <<storeUp, limiterVars, guardLimit, mounted, callsTo,
                   lastGuard,
                   cacheTtl, pending, unhandled, lastCache,
                   sessionVars, pubsubVars>>

(***************************************************************************)
(* The session store, services/redis.ts:149-160                            *)
(***************************************************************************)
\* the ttl a caller passes to cacheUserSession (POST /session takes it from
\* the request body, routes/redis.routes.ts:88-95)
SessionTtls == (-1)..MaxWindow

NoResponse == [route |-> "", status |-> 0, failed |-> FALSE]

NoLoad == [id |-> "", failed |-> FALSE, threw |-> FALSE, result |-> NoBody,
           due |-> NoBody]

\* line 149-151: set(`session:${userId}`, JSON.stringify(sessionData), ttl)
CacheUserSession(userId, sessionData, ttl) ==
    /\ IF storeUp /\ ~setThrows(ttl)
       THEN /\ store' = set(store, SessionKey(userId),
                            JSONstringify(sessionData), ttl)
            /\ saved' = [saved EXCEPT ![userId] = sessionData]
       ELSE UNCHANGED <<store, saved>>
    /\ UNCHANGED <<storeUp, limiterVars, guardVars, cacheVars, lastLoad,
                   lastResponse, pubsubVars>>

\* line 153-156: get, then JSON.parse of a truthy text, null otherwise
getUserSession(userId) ==
    LET session == get(store, SessionKey(userId))
        value == IF Truthy(session) THEN JSONparse(session) ELSE JsNull
    IN  IF ~storeUp
        THEN [id |-> userId, failed |-> TRUE, threw |-> TRUE,
              result |-> NoBody, due |-> NoBody]
        ELSE IF value = SyntaxError
        THEN [id |-> userId, failed |-> FALSE, threw |-> TRUE,
              result |-> NoBody, due |-> saved[userId]]
        ELSE [id |-> userId, failed |-> FALSE, threw |-> FALSE,
              result |-> value, due |-> saved[userId]]

GetUserSession(userId) ==
    /\ lastLoad' = getUserSession(userId)
    /\ UNCHANGED <<store, storeUp, limiterVars, guardVars, cacheVars, saved,
                   lastResponse, pubsubVars>>

\* line 158-160: del(`session:${userId}`)
InvalidateUserSession(userId) ==
    /\ IF storeUp
       THEN /\ store' = del(store, SessionKey(userId))
            /\ saved' = [saved EXCEPT ![userId] = NoBody]
       ELSE UNCHANGED <<store, saved>>
    /\ UNCHANGED <<storeUp, limiterVars, guardVars, cacheVars, lastLoad,
                   lastResponse, pubsubVars>>

(***************************************************************************)
(* The session middleware, middleware/redis.ts:79-97, and the health check *)
(* of the store, 117-131                                                   *)
(***************************************************************************)
\* the session-id header of a request, when it carries one
SessionHeaders == SessionIds \cup {Null}

\* line 83-92: with a session-id header, getUserSession and, for a truthy
\* session, req.session = session; then next(). Line 93-96: next() from the
\* catch when getUserSession threw
SessionMiddleware(sessionId) ==
    /\ IF Truthy(sessionId)
       THEN /\ lastLoad' = getUserSession(sessionId)
            /\ lastRun' = Ran("sessionMiddleware",
                              IF lastLoad'.threw THEN <<"next">>
                                                 ELSE <<"next">>)
       ELSE /\ lastRun' = Ran("sessionMiddleware", <<"next">>)
            /\ UNCHANGED lastLoad
    /\ UNCHANGED <<store, storeUp, limiterVars, guardLimit, mounted,
                   callsTo, lastGuard, cacheVars, saved, lastResponse, pubsubVars>>

Thrown == "<thrown>"

\* services/redis.ts:191-193: the reply of PING, or the error of the client
ping(up) == IF up THEN "PONG" ELSE Thrown

\* line 120-125: next() on 'PONG', 503 on any other reply; line 126-129: 503
\* from the catch
RedisHealthCheck ==
    /\ lastRun' = Ran("redisHealthCheck",
                      IF ping(storeUp) = Thrown THEN <<"503">>
                      ELSE IF ping(storeUp) = "PONG" THEN <<"next">>
                      ELSE <<"503">>)
    /\ UNCHANGED <<store, storeUp, limiterVars, guardLimit, mounted,
                   callsTo, lastGuard, cacheVars, sessionVars, pubsubVars>>

(***************************************************************************)
(* The session routes, routes/redis.routes.ts:86-125. Each is behind a     *)
(* rateLimit(20, 60) guard, which calls next() when the store is down.     *)
(***************************************************************************)
\* !value for the values a session holds
JsFalsy(d) == d \in {JsNull, JsString(""), JsNumber(0), NoBody}

Responded(route, status) ==
    [route |-> route, status |-> status, failed |-> ~storeUp]

\* line 86-99: 404 without a session, 500 from the catch
GetSessionRoute(userId) ==
    /\ lastLoad' = getUserSession(userId)
    /\ lastResponse' =
           Responded("GET /session/:userId",
                     IF lastLoad'.threw THEN 500
                     ELSE IF JsFalsy(lastLoad'.result) THEN 404 ELSE 200)
    /\ UNCHANGED <<store, storeUp, limiterVars, guardVars, cacheVars, saved,
                   pubsubVars>>

\* line 101-115: 400 without session data, 500 from the catch
PostSessionRoute(userId, sessionData, ttl) ==
    /\ IF JsFalsy(sessionData)
       THEN /\ lastResponse' = Responded("POST /session/:userId", 400)
            /\ UNCHANGED <<store, saved>>
       ELSE IF storeUp /\ ~setThrows(ttl)
       THEN /\ store' = set(store, SessionKey(userId),
                            JSONstringify(sessionData), ttl)
            /\ saved' = [saved EXCEPT ![userId] = sessionData]
            /\ lastResponse' = Responded("POST /session/:userId", 200)
       ELSE /\ lastResponse' = Responded("POST /session/:userId", 500)
            /\ UNCHANGED <<store, saved>>
    /\ UNCHANGED <<storeUp, limiterVars, guardVars, cacheVars, lastLoad,
                   pubsubVars>>

\* line 117-125: 500 from the catch
DeleteSessionRoute(userId) ==
    /\ IF storeUp
       THEN /\ store' = del(store, SessionKey(userId))
            /\ saved' = [saved EXCEPT ![userId] = NoBody]
            /\ lastResponse' = Responded("DELETE /session/:userId", 200)
       ELSE /\ lastResponse' = Responded("DELETE /session/:userId", 500)
            /\ UNCHANGED <<store, saved>>
    /\ UNCHANGED <<storeUp, limiterVars, guardVars, cacheVars, lastLoad,
                   pubsubVars>>

(***************************************************************************)
(* Publish / subscribe, services/redis.ts:131-146                          *)
(***************************************************************************)
\* the callbacks callers subscribe with
Handlers == {"h1", "h2"}

\* middleware/redis.ts:199   'Hello from test!'
Messages == {"Hello from test!"}

\* the 'message' listeners the subscriber connection is let to collect
MaxListeners == 3

NoPublish == [channel |-> "", message |-> "", count |-> 0,
              delivered |-> <<>>, handlers |-> EmptyBag, order |-> <<>>]

\* line 138-140: the listener calls back when the message is on its channel
Invoked(ls, channel, message) ==
    LET OnChannel(l) == l.channel = channel
        hit == SelectSeq(ls, OnChannel)
    IN  [i \in 1..Len(hit) |-> [callback |-> hit[i].callback,
                                message |-> message]]

\* line 131-133: the number of subscribers reached, and what they do with it
Publish(channel, message) ==
    /\ storeUp
    /\ lastPublish' =
           [channel |-> channel, message |-> message,
            count |-> IF channel \in subscribed THEN 1 ELSE 0,
            delivered |-> IF channel \in subscribed
                          THEN Invoked(listeners, channel, message)
                          ELSE <<>>,
            handlers |-> handlers[channel],
            order |-> order[channel]]
    /\ UNCHANGED <<store, storeUp, limiterVars, guardVars, cacheVars,
                   sessionVars, subscribed, listeners, handlers, order>>

\* line 135-142: SUBSCRIBE, then one more 'message' listener
Subscribe(channel, callback) ==
    /\ Len(listeners) < MaxListeners
    /\ IF storeUp
       THEN /\ subscribed' = subscribed \cup {channel}
            /\ listeners' = Append(listeners, [channel |-> channel,
                                               callback |-> callback])
            /\ handlers' = [handlers EXCEPT
                               ![channel] = @ (+) SetToBag({callback})]
            /\ order' = [order EXCEPT ![channel] = Append(@, callback)]
       ELSE UNCHANGED <<subscribed, listeners, handlers, order>>
    /\ UNCHANGED <<store, storeUp, limiterVars, guardVars, cacheVars,
                   sessionVars, lastPublish>>

\* line 144-146: UNSUBSCRIBE; the listeners stay
Unsubscribe(channel) ==
    /\ IF storeUp
       THEN /\ subscribed' = subscribed \ {channel}
            /\ handlers' = [handlers EXCEPT ![channel] = EmptyBag]
            /\ order' = [order EXCEPT ![channel] = <<>>]
       ELSE UNCHANGED <<subscribed, handlers, order>>
    /\ UNCHANGED <<store, storeUp, limiterVars, guardVars, cacheVars,
                   sessionVars, listeners, lastPublish>>

(***************************************************************************)
(* POST /cache/:key, routes/redis.routes.ts:42-56: any key, any value      *)
(***************************************************************************)
\* values a client posts that are neither JSON nor a number
Garbage == {"<html>"}

\* the keys a client overwrites: a counter, a session and a cache entry
PostedKeys == {RateLimitKey("health", "ip1"), SessionKey("test:user"),
               CacheKey("GET", "/api/data")}

\* line 47-52: 400 without a value, else set(key, value, ttl); a ttl left out
\* of the body is undefined and goes to SET like 0
PostCacheKey(key, value, ttl) ==
    /\ Truthy(value)
    /\ IF storeUp /\ ~setThrows(ttl)
       THEN /\ store' = set(store, key, value, ttl)
            /\ saved' = [id \in DOMAIN saved |->
                            IF SessionKey(id) = key THEN NoBody ELSE saved[id]]
            /\ cached' = [u \in DOMAIN cached |->
                             IF \E m \in Methods : CacheKey(m, u) = key
                             THEN NoBody ELSE cached[u]]
            /\ storedBy' = [u \in DOMAIN storedBy |->
                               IF \E m \in Methods : CacheKey(m, u) = key
                               THEN "" ELSE storedBy[u]]
       ELSE UNCHANGED <<store, saved, cached, storedBy>>
    /\ UNCHANGED <<storeUp, limiterVars, guardVars, cacheTtl, pending,
                   invalidated, unhandled, lastCache, lastLoad, lastResponse,
                   pubsubVars>>

(***************************************************************************)
(* Setting the guards up: rateLimit(limit, window), apiRateLimit(limit,    *)
(* window) and cache(ttl) return the middleware, whatever they are given   *)
(***************************************************************************)
\* middleware/redis.ts:5-6
rateLimitSetup(lim, win) == "middleware"

\* middleware/redis.ts:28-29
apiRateLimitSetup(lim, win) == "middleware"

\* middleware/redis.ts:51-52
cacheSetup(ttl) == "middleware"

(***************************************************************************)
(* The clock and the store's availability                                  *)
(***************************************************************************)
GuardsOn(key) ==
    {g \in Guards : \E ip \in IPs : RateLimitKey(g, ip) = key}
        \cup {g \in ApiGuards : \E u \in UserIds \cup IPs : ApiRateLimitKey(u) = key}

Tick ==
    /\ store' = Expire(store)
    /\ age' = [k \in DOMAIN age |->
                  IF store[k].present THEN Min(age[k] + 1, MaxWindow) ELSE age[k]]
    /\ hist' = [k \in DOMAIN hist |->
                   IF Expiring(store, k)
                   THEN [FreshHist EXCEPT !.serial = InFlightOn(k) = 0,
                                          !.peak = InFlightOn(k),
                                          !.prev = Min(hist[k].admitted, 2),
                                          !.prevRejected = hist[k].rejected]
                   ELSE hist[k]]
    /\ callsTo' = [g \in DOMAIN callsTo |->
                      IF \E k \in RateKeys : g \in GuardsOn(k) /\ Expiring(store, k)
                      THEN 0 ELSE callsTo[g]]
    /\ cached' = [u \in DOMAIN cached |->
                     IF \E m \in Methods : Expiring(store, CacheKey(m, u))
                     THEN NoBody ELSE cached[u]]
    /\ storedBy' = [u \in DOMAIN storedBy |->
                       IF \E m \in Methods : Expiring(store, CacheKey(m, u))
                       THEN "" ELSE storedBy[u]]
    /\ saved' = [id \in DOMAIN saved |->
                    IF Expiring(store, SessionKey(id))
                    THEN NoBody ELSE saved[id]]
    /\ UNCHANGED <<storeUp, limit, window, flight, last, lastCount,
                   guardLimit, mounted, lastGuard, lastRun,
                   cacheTtl, pending, invalidated, unhandled, lastCache,
                   lastLoad, lastResponse, pubsubVars>>

Fail ==
    /\ storeUp
    /\ storeUp' = FALSE
    /\ UNCHANGED <<store, limiterVars, guardVars, cacheVars,
                   sessionVars, pubsubVars>>

Recover ==
    /\ ~storeUp
    /\ storeUp' = TRUE
    /\ UNCHANGED <<store, limiterVars, guardVars, cacheVars,
                   sessionVars, pubsubVars>>

(***************************************************************************)
(* Concurrent service-level callers of rateLimit                           *)
(***************************************************************************)
InitStore ==
    /\ store = [k \in AllKeys |-> Absent]
    /\ storeUp = TRUE

InitHistory ==
    /\ flight = EmptyBag
    /\ hist = [k \in TestKeys |-> FreshHist]
    /\ age = [k \in TestKeys |-> MaxWindow]
    /\ last = NoCall
    /\ lastCount = NoCount
    /\ callsTo = [g \in AllGuards |-> 0]
    /\ lastGuard = NoGuard
    /\ lastRun = NoRun
    /\ pending = EmptyBag
    /\ cached = [u \in URLs |-> NoBody]
    /\ storedBy = [u \in URLs |-> ""]
    /\ invalidated = [u \in URLs |-> FALSE]
    /\ unhandled = FALSE
    /\ lastCache = NoAnswer
    /\ saved = [id \in SessionIds |-> NoBody]
    /\ lastLoad = NoLoad
    /\ lastResponse = NoResponse
    /\ subscribed = {}
    /\ listeners = <<>>
    /\ handlers = [ch \in Channels |-> EmptyBag]
    /\ order = [ch \in Channels |-> <<>>]
    /\ lastPublish = NoPublish

InitLimiter ==
    /\ InitStore
    /\ InitHistory
    /\ limit \in 1..MaxLimit
    /\ window \in 1..MaxWindow
    /\ guardLimit = [g \in AllGuards |-> 1]
    /\ mounted = Middlewares
    /\ cacheTtl = 1

NextLimiter ==
    \/ \E key \in TestKeys : CallRateLimit(key)
    \/ \E c \in BagToSet(flight) : RateLimitWrite(c)
    \/ \E key \in TestKeys : GetRateLimitCount(key)
    \/ Tick

SpecLimiter == InitLimiter /\ [][NextLimiter]_vars

(***************************************************************************)
(* The same callers when time does not stand still: the clock of the store *)
(* ticks whatever the callers do                                           *)
(***************************************************************************)
NextLimiterFair ==
    \/ \E key \in TestKeys : CallRateLimit(key)
    \/ \E c \in BagToSet(flight) : RateLimitWrite(c)
    \/ Tick

SpecLimiterFair == InitLimiter /\ [][NextLimiterFair]_vars /\ WF_vars(Tick)

(***************************************************************************)
(* Requests passing the rate-limit guards of the router                    *)
(***************************************************************************)
InitGuard ==
    /\ InitStore
    /\ InitHistory
    /\ limit = 1
    /\ window \in 1..MaxWindow
    /\ guardLimit \in {f \in [AllGuards -> 1..MaxLimit] :
                        \A g \in ApiGuards : f[g] = 1}
    /\ mounted = Middlewares
    /\ cacheTtl = 1

NextGuard ==
    \/ \E g \in Guards, ip \in IPs : RateLimitGuard(g, ip)
    \/ \E c \in BagToSet(flight) : RateLimitWrite(c)
    \/ Tick
    \/ Fail
    \/ Recover

SpecGuard == InitGuard /\ [][NextGuard]_vars

(***************************************************************************)
(* GET requests passing the cache guard, and invalidations                 *)
(***************************************************************************)
InitCache ==
    /\ InitStore
    /\ InitHistory
    /\ limit = 1
    /\ window = 1
    /\ guardLimit = [g \in AllGuards |-> 1]
    /\ mounted = Middlewares
    /\ cacheTtl \in 1..MaxWindow

NextCache ==
    \/ \E u \in URLs : CacheGuard("GET", u)
    \/ \E p \in BagToSet(pending), d \in Payloads : HandlerRespond(p, d)
    \/ \E q \in Patterns : InvalidateCache(q)
    \/ Tick
    \/ Fail
    \/ Recover

SpecCache == InitCache /\ [][NextCache]_vars

(***************************************************************************)
(* Requests of either method on one url passing the cache guard            *)
(***************************************************************************)
InitCacheMethods == InitCache

NextCacheMethods ==
    \/ \E m \in Methods : CacheGuard(m, "/api/data")
    \/ \E p \in BagToSet(pending), d \in Payloads : HandlerRespond(p, d)
    \/ InvalidateCache("/api/data")
    \/ Tick

SpecCacheMethods == InitCacheMethods /\ [][NextCacheMethods]_vars

(***************************************************************************)
(* The guards while every store command fails. No get ever answers, so no  *)
(* call reaches its set and no answer comes from the cache: the steps of   *)
(* this relation are the ones a request can take then.                     *)
(***************************************************************************)
Headers == UserIds \cup {Null}

InitFailOpen ==
    /\ store = [k \in AllKeys |-> Absent]
    /\ storeUp = FALSE
    /\ InitHistory
    /\ limit = 1
    /\ window = MaxWindow
    /\ guardLimit = [g \in AllGuards |-> MaxLimit]
    /\ mounted = Middlewares
    /\ cacheTtl = MaxWindow

NextFailOpen ==
    \/ \E g \in Guards, ip \in IPs : RateLimitGuard(g, ip)
    \/ \E g \in ApiGuards, h \in Headers, ip \in IPs : ApiRateLimitGuard(g, h, ip)
    \/ \E m \in Methods, u \in URLs : CacheGuard(m, u)
    \/ \E p \in BagToSet(pending), d \in Payloads : HandlerRespond(p, d)
    \/ \E q \in Patterns : InvalidateCache(q)
    \/ Tick

SpecFailOpen == InitFailOpen /\ [][NextFailOpen]_vars

(***************************************************************************)
(* Callers of the session store                                            *)
(***************************************************************************)
InitSession ==
    /\ InitStore
    /\ InitHistory
    /\ limit = 1
    /\ window = 1
    /\ guardLimit = [g \in AllGuards |-> 1]
    /\ mounted = Middlewares
    /\ cacheTtl = 1

NextSession ==
    \/ \E id \in SessionIds, d \in JsonValues, ttl \in SessionTtls :
           CacheUserSession(id, d, ttl)
    \/ \E id \in SessionIds : GetUserSession(id)
    \/ \E id \in SessionIds : InvalidateUserSession(id)
    \/ Tick
    \/ Fail
    \/ Recover

SpecSession == InitSession /\ [][NextSession]_vars

(***************************************************************************)
(* Publishers and subscribers                                              *)
(***************************************************************************)
InitPubSub == InitSession

NextPubSub ==
    \/ \E ch \in Channels, msg \in Messages : Publish(ch, msg)
    \/ \E ch \in Channels, h \in Handlers : Subscribe(ch, h)
    \/ \E ch \in Channels : Unsubscribe(ch)
    \/ Fail
    \/ Recover

SpecPubSub == InitPubSub /\ [][NextPubSub]_vars

(***************************************************************************)
(* Requests and calls that find a value a client has posted. What they do  *)
(* with it does not depend on the time left to the key, so no time passes. *)
(***************************************************************************)
InitMalformed == InitSession

NextMalformed ==
    \/ \E key \in PostedKeys, v \in Garbage, ttl \in {0, MaxWindow} :
           PostCacheKey(key, v, ttl)
    \/ RateLimitGuard("health", "ip1")
    \/ \E c \in BagToSet(flight) : RateLimitWrite(c)
    \/ GetUserSession("test:user")
    \/ CacheGuard("GET", "/api/data")
    \/ \E p \in BagToSet(pending) : HandlerRespond(p, SessionData)

SpecMalformed == InitMalformed /\ [][NextMalformed]_vars

(***************************************************************************)
(* Requests through guards set up with any limit, window and ttl           *)
(***************************************************************************)
InitSetup ==
    /\ InitStore
    /\ InitHistory
    /\ limit = 1
    /\ window \in 0..MaxWindow
    /\ \E lim \in 0..MaxLimit :
           /\ rateLimitSetup(lim, window) = "middleware"
           /\ apiRateLimitSetup(lim, window) = "middleware"
           /\ guardLimit = [g \in AllGuards |-> lim]
    /\ mounted = Middlewares
    /\ cacheTtl \in {ttl \in 0..MaxWindow : cacheSetup(ttl) = "middleware"}

NextSetup ==
    \/ RateLimitGuard("health", "ip1")
    \/ \E h \in Headers : ApiRateLimitGuard("api", h, "ip1")
    \/ \E c \in BagToSet(flight) : RateLimitWrite(c)
    \/ CacheGuard("GET", "/api/data")
    \/ \E p \in BagToSet(pending) : HandlerRespond(p, SessionData)
    \/ Tick

SpecSetup == InitSetup /\ [][NextSetup]_vars

(***************************************************************************)
(* Clients of the session routes                                           *)
(***************************************************************************)
InitRoutes == InitSession

NextRoutes ==
    \/ \E id \in SessionIds : GetSessionRoute(id)
    \/ \E id \in SessionIds, d \in JsonValues, ttl \in SessionTtls :
           PostSessionRoute(id, d, ttl)
    \/ \E id \in SessionIds : DeleteSessionRoute(id)
    \/ Tick
    \/ Fail
    \/ Recover

SpecRoutes == InitRoutes /\ [][NextRoutes]_vars

(***************************************************************************)
(* Requests to a route passing the middlewares it is set up with, over a   *)
(* store that holds what the routes and their clients have written under   *)
(* the keys those middlewares read                                         *)
(***************************************************************************)
\* the middlewares a route is set up with: one of them, or the cache and its
\* invalidation
Stacks == {{"rateLimit"}, {"apiRateLimit"}, {"cache", "invalidateCache"},
           {"sessionMiddleware"}, {"redisHealthCheck"}}

\* the keys the middlewares of a stack read (line 8, 32, 54, and
\* services/redis.ts:154 for the session middleware)
ReadBy(stack) ==
    (IF "rateLimit" \in stack THEN {RateLimitKey(g, ip) : g \in Guards, ip \in IPs}
                              ELSE {})
        \cup (IF "apiRateLimit" \in stack
              THEN {ApiRateLimitKey(u) : u \in UserIds \cup IPs} ELSE {})
        \cup (IF "cache" \in stack
              THEN {CacheKey(m, u) : m \in Methods, u \in URLs} ELSE {})
        \cup (IF "sessionMiddleware" \in stack THEN SessionKeys ELSE {})

InitMiddleware ==
    /\ InitStore
    /\ InitHistory
    /\ limit = 1
    /\ window = 1
    /\ guardLimit = [g \in AllGuards |-> 1]
    /\ cacheTtl = 1
    /\ mounted \in Stacks

NextMiddleware ==
    \/ "rateLimit" \in mounted /\ RateLimitGuard("health", "ip1")
    \/ /\ "apiRateLimit" \in mounted
       /\ \E h \in Headers : ApiRateLimitGuard("api", h, "ip1")
    \/ \E c \in BagToSet(flight) : RateLimitWrite(c)
    \/ "cache" \in mounted /\ CacheGuard("GET", "/api/data")
    \/ \E p \in BagToSet(pending) : HandlerRespond(p, SessionData)
    \/ "invalidateCache" \in mounted /\ InvalidateCache("/api/data")
    \/ /\ "sessionMiddleware" \in mounted
       /\ \E h \in SessionHeaders : SessionMiddleware(h)
    \/ "redisHealthCheck" \in mounted /\ RedisHealthCheck
    \/ /\ "sessionMiddleware" \in mounted
       /\ PostSessionRoute("u1", SessionData, MaxWindow)
    \/ \E key \in PostedKeys \cap ReadBy(mounted), v \in Garbage :
           PostCacheKey(key, v, MaxWindow)
    \/ Tick
    \/ Fail
    \/ Recover

SpecMiddleware == InitMiddleware /\ [][NextMiddleware]_vars

(***************************************************************************)
(* Properties of the limiter                                               *)
(***************************************************************************)
RECURSIVE Binomial(_, _)
Binomial(n, k) ==
    IF k = 0 \/ k = n THEN 1
    ELSE IF k > n THEN 0
    ELSE Binomial(n - 1, k - 1) + Binomial(n - 1, k)

\* C1: when the calls on a fresh key are issued one at a time and the key
\* does not expire in between, call number n returns true for n <= limit
\* and call number limit + 1 returns false.
C1_SerializedCallsAdmitExactlyLimit ==
    (last.key # "" /\ last.serial /\ last.n <= limit + 1)
        => (last.result <=> last.n <= limit)

C1_Witness ==
    /\ last.key # "" /\ last.serial
    /\ limit = MaxLimit
    /\ last.n = limit + 1
    /\ ~last.result

\* C2 as stated: with at most k calls on a key between their read and their
\* write at any time, at most limit + k calls are admitted in one window.
C2_AdmittedAtMostLimitPlusInflight ==
    \A k \in TestKeys : hist[k].admitted <= limit + hist[k].peak

\* C2 as amended: with at most k calls on a key in flight at any time, the
\* number of calls admitted in one window never exceeds
\* Binomial(limit + k, k) - 1, which is limit for k = 1.
C2_AdmittedAtMostBinomial ==
    \A k \in TestKeys :
        hist[k].admitted <= Binomial(limit + hist[k].peak, hist[k].peak) - 1

C2_Witness ==
    \E k \in TestKeys :
        /\ hist[k].peak = 2
        /\ limit = 2
        /\ hist[k].admitted = 5

\* C4: a serialized call that starts once the window has elapsed since the
\* last write of the previous window (its first admitted call when nothing
\* re-extended the ttl) is admitted and leaves the stored count at 1.
C4_FreshWindowAfterExpiry ==
    (last.key # "" /\ last.afterWindow /\ last.serial)
        => (last.result /\ last.stored = "1" /\ last.n = 1)

C4_Witness ==
    /\ last.key # "" /\ last.afterWindow /\ last.serial
    /\ last.prev = 1
    /\ last.result /\ last.stored = "1"
    /\ window = MaxWindow

(***************************************************************************)
(* Properties of the rate-limit guards                                     *)
(***************************************************************************)
\* C3: the guards of two routes decide independently for one caller: a
\* request is rejected by a guard only when the caller has already made at
\* least that guard's limit of requests to it in the window.
C3_GuardsAreIndependent ==
    lastGuard.outcome = "429" => lastGuard.before >= guardLimit[lastGuard.guard]

(***************************************************************************)
(* Properties of the guards                                                *)
(***************************************************************************)
\* C5: while every store command fails, rateLimit and apiRateLimit end every
\* request with next(), the cache guard passes every request on to the
\* wrapped handler, which answers it, and no error escapes.
C5_FailOpen ==
    /\ lastGuard.guard # "" => (lastGuard.failed /\ lastGuard.outcome = "next")
    /\ lastCache.by # "" => (lastCache.failed /\ lastCache.by = "handler")
    /\ \A p \in BagToSet(pending) : p.failed /\ ~p.override
    /\ ~unhandled

C5_Witness ==
    /\ ~storeUp
    /\ \A g \in AllGuards : callsTo[g] >= 1
    /\ lastGuard.failed /\ lastGuard.outcome = "next"
    /\ lastCache.failed /\ lastCache.by = "handler"

\* C6: on a miss, a failing store write of the produced body is swallowed
\* inside the guard: no rejected promise escapes it.
C6_WriteFailureIsSwallowed == ~unhandled

\* C7: a request whose key holds a body stored by an earlier request, not
\* expired and not invalidated, is answered from the cache with that body,
\* and the wrapped handler is not invoked for it.
C7_SecondCallIsAHit ==
    (lastCache.by # "" /\ lastCache.due /\ ~lastCache.failed)
        => (lastCache.by = "cache" /\ lastCache.same)

C7_Witness ==
    /\ lastCache.by = "cache" /\ lastCache.due /\ lastCache.same
    /\ cached["/api/data?page=2"] = SessionData

\* C8: the first request for a url after invalidateCache(url) completed is a
\* miss: it is passed on and the wrapped handler answers it.
C8_MissAfterInvalidate ==
    (lastCache.by # "" /\ lastCache.afterInvalidate) => lastCache.by = "handler"

C8_Witness ==
    /\ lastCache.by = "handler" /\ lastCache.afterInvalidate
    /\ ~lastCache.failed


(***************************************************************************)
(* Properties of the session store                                         *)
(***************************************************************************)
\* C9: while the store answers, getUserSession(id) returns a value equal to
\* the document last saved under id as long as that save has neither expired
\* nor been invalidated, and returns null, throwing nothing, when the id was
\* never saved, was invalidated or has expired.
C9_SessionRoundTrip ==
    (lastLoad.id # "" /\ ~lastLoad.failed)
        => /\ ~lastLoad.threw
           /\ lastLoad.result =
                  IF lastLoad.due = NoBody THEN JsNull ELSE lastLoad.due

C9_Witness ==
    /\ lastLoad.id # "" /\ ~lastLoad.failed
    /\ lastLoad.due = SessionData
    /\ lastLoad.result = SessionData

(***************************************************************************)
(* Properties of publish / subscribe                                       *)
(***************************************************************************)
\* C10: a publish on a channel nobody is subscribed to reports zero
\* subscribers and invokes no handler; a publish on a channel with exactly
\* one handler subscribed invokes that handler exactly once, with the payload.
C10_PublishReachesTheOneHandler ==
    lastPublish.channel # "" =>
        /\ lastPublish.handlers = EmptyBag
               => (lastPublish.count = 0 /\ lastPublish.delivered = <<>>)
        /\ \A h \in Handlers :
               lastPublish.handlers = SetToBag({h})
                   => Cardinality({i \in DOMAIN lastPublish.delivered :
                          lastPublish.delivered[i] =
                              [callback |-> h,
                               message |-> lastPublish.message]}) = 1

C10_Witness ==
    /\ lastPublish.channel # ""
    /\ \E h \in Handlers :
           /\ lastPublish.handlers = SetToBag({h})
           /\ lastPublish.delivered =
                  <<[callback |-> h, message |-> lastPublish.message],
                    [callback |-> h, message |-> lastPublish.message]>>

\* C11: after unsubscribe(channel), a publish on the channel invokes no
\* handler registered before the unsubscribe: every handler a publish invokes
\* has been subscribed to the channel since the channel was last unsubscribed.
C11_UnsubscribeRemovesTheHandlers ==
    lastPublish.channel # "" =>
        \A i \in DOMAIN lastPublish.delivered :
            BagIn(lastPublish.delivered[i].callback, lastPublish.handlers)

C11_Witness ==
    /\ lastPublish.channel # ""
    /\ lastPublish.handlers = SetToBag({"h2"})
    /\ lastPublish.delivered =
           <<[callback |-> "h1", message |-> lastPublish.message],
             [callback |-> "h2", message |-> lastPublish.message]>>

(***************************************************************************)
(* Properties of the readers of a malformed value                          *)
(***************************************************************************)
\* C12: a malformed stored value is treated as absent: the cache guard passes
\* the request on as it does on a miss (with the response to be stored), a
\* getUserSession that reached the store throws nothing, and a rateLimit call
\* counts from 0, so that no call goes on with a count that is no number and
\* no counter is left holding "NaN".
C12_MalformedIsAbsent ==
    /\ \A p \in BagToSet(pending) : ~p.failed => p.override
    /\ (lastLoad.id # "" /\ ~lastLoad.failed) => ~lastLoad.threw
    /\ \A c \in BagToSet(flight) : c.count # NaN
    /\ \A k \in RateKeys : store[k].val # toString(NaN)

C12_Witness ==
    /\ lastLoad.id # "" /\ ~lastLoad.failed /\ lastLoad.threw
    /\ \E k \in RateKeys : store[k].val = toString(NaN)
    /\ \E p \in BagToSet(pending) : ~p.failed /\ ~p.override

(***************************************************************************)
(* Properties of the set-up of the guards                                  *)
(***************************************************************************)
\* C13: a guard set up with a non-positive limit, window or ttl processes no
\* request: every request a rate-limit guard has counted or decided found a
\* positive limit and window, and every request the cache guard has answered
\* or passed on found a positive ttl.
C13_NonPositiveIsRejectedAtSetup ==
    /\ \A g \in AllGuards :
           callsTo[g] > 0 => (guardLimit[g] >= 1 /\ window >= 1)
    /\ lastGuard.guard # "" => (guardLimit[lastGuard.guard] >= 1 /\ window >= 1)
    /\ (lastCache.by # "" \/ pending # EmptyBag) => cacheTtl >= 1

C13_Witness ==
    /\ lastGuard.guard = "health" /\ lastGuard.outcome = "429"
    /\ lastGuard.before = 0
    /\ guardLimit["health"] = 0
    /\ lastCache.by = "cache" /\ cacheTtl = 0

(***************************************************************************)
(* Properties of the session routes                                        *)
(***************************************************************************)
\* C14: a session route that is requested while the store is unavailable
\* does not answer with the error response of its catch block (500).
C14_SessionRoutesDegrade ==
    (lastResponse.route # "" /\ lastResponse.failed)
        => lastResponse.status # 500

C14_Witness ==
    /\ lastResponse.route = "GET /session/:userId"
    /\ lastResponse.failed
    /\ lastResponse.status = 500
    /\ \E id \in SessionIds : saved[id] = SessionData

(***************************************************************************)
(* Properties of the stored count                                          *)
(***************************************************************************)
\* C15 as stated: under any interleaving of calls on a key, every write to
\* the counter stores a value greater than or equal to the one it overwrites,
\* and the key loses its value only by expiring.
C15_CountNeverDecreases ==
    [][\A k \in TestKeys :
           /\ (store[k].present /\ store'[k].present)
                  => parseInt(store'[k].val) >= parseInt(store[k].val)
           /\ (store[k].present /\ ~store'[k].present) => Expiring(store, k)
      ]_vars

\* C15 as amended: a write stores a value below the one it overwrites only
\* when calls on the key have overlapped since the key was last absent (the
\* write of a call that read before another call wrote); a stored count is
\* never below 1, and the key loses its value only by expiring.
C15_CountDecreasesOnlyUnderOverlap ==
    [][\A k \in TestKeys :
           /\ (/\ store[k].present /\ store'[k].present
               /\ parseInt(store'[k].val) < parseInt(store[k].val))
                  => ~hist'[k].serial
           /\ store'[k].present => parseInt(store'[k].val) >= 1
           /\ (store[k].present /\ ~store'[k].present) => Expiring(store, k)
      ]_vars

C15_Witness ==
    \E k \in TestKeys :
        /\ ~hist[k].serial
        /\ hist[k].admitted = 3
        /\ store[k].present /\ store[k].val = "1"

\* C16: a call that finds the stored count at or above the limit writes
\* nothing: the step in which a call returns false leaves the store as it is;
\* a counter changes only by a second passing or by the set of a call that
\* read a count below the limit; and a counter loses its value only by
\* expiring, never by a delete.
C16_RejectedCallWritesNothing ==
    [][/\ (last' # last /\ ~last'.result) => store' = store
       /\ \A k \in TestKeys :
              store'[k] # store[k] =>
                  \/ store' = Expire(store)
                  \/ \E c \in BagToSet(flight) :
                         /\ c.key = k
                         /\ c.count < limit
                         /\ flight' = flight (-) SetToBag({c})
                         /\ store'[k].present
                         /\ store'[k].val = toString(c.count + 1)
       /\ \A k \in TestKeys :
              (store[k].present /\ ~store'[k].present) => Expiring(store, k)
      ]_vars

C16_Witness ==
    \E k \in TestKeys :
        /\ last.key = k /\ last.serial /\ ~last.result
        /\ last.n = limit + 1
        /\ store[k].present /\ store[k].val = toString(limit)
        /\ store[k].ttl < window

\* C17: the set of an admitted call stores the count the call read plus one
\* with the whole window as time to live: right after it the key holds that
\* value and expires in window seconds, whatever time the key had left.
C17_FullWindowReappliedOnWrite ==
    [][\A c \in BagToSet(flight) :
           flight' = flight (-) SetToBag({c}) =>
               store'[c.key] = [present |-> TRUE,
                                val |-> toString(c.count + 1),
                                ttl |-> window, expires |-> TRUE]
      ]_vars

C17_Witness ==
    \E k \in TestKeys :
        /\ last.key = k /\ last.serial /\ last.result /\ last.n = 2
        /\ last.prev = 0 /\ ~last.afterWindow
        /\ window = MaxWindow
        /\ store[k] = [present |-> TRUE, val |-> "2", ttl |-> window,
                       expires |-> TRUE]
        /\ age[k] = 0

\* C18: getRateLimitCount(key) returns 0 when the key holds no value and the
\* stored count otherwise, which is the number of calls admitted in the window
\* (1 after a single admitted call) while the calls on the key have run one
\* at a time; and the call leaves every key of the store as it is, value and
\* time to live.
C18_GetRateLimitCountIsAPureRead ==
    /\ [](lastCount.key # "" =>
             /\ ~lastCount.present => lastCount.value = 0
             /\ (lastCount.present /\ lastCount.serial)
                    => lastCount.value = lastCount.admitted)
    /\ [][lastCount' # lastCount => store' = store]_vars

C18_Witness ==
    /\ lastCount.key # "" /\ lastCount.present /\ lastCount.serial
    /\ lastCount.admitted = 1
    /\ lastCount.value = 1
    /\ store[lastCount.key].val = "1"

\* C19: a handler that answers with an error causes no cache write: no cache
\* key ever holds the text of an error body, so no later request is answered
\* from the cache with one.
C19_ErrorResponsesAreNotCached ==
    /\ \A u \in URLs : cached[u] # ErrorBody
    /\ \A m \in Methods, u \in URLs :
           store[CacheKey(m, u)].val # JSONstringify(ErrorBody)

C19_Witness ==
    /\ lastCache.by = "cache" /\ lastCache.same
    /\ cached["/api/data"] = ErrorBody
    /\ cached["/api/data?page=2"] = NoBody
    /\ store[CacheKey("GET", "/api/data")].val = JSONstringify(ErrorBody)

\* C20: requests that differ in method have cache entries of their own: a
\* request answered from the cache is answered with a body that was stored
\* for a request of its own method.
C20_CacheEntryPerMethod ==
    lastCache.by = "cache" => lastCache.own

C20_Witness ==
    /\ lastCache.by = "cache" /\ ~lastCache.own /\ lastCache.same
    /\ \E u \in URLs : storedBy[u] = "POST" /\ cached[u] = SessionData

\* C21: a publish invokes the handlers subscribed to its channel, each once
\* for each time it subscribed and in the order they subscribed: the calls it
\* makes to handlers that are subscribed are the subscriptions in their
\* order; and it invokes no handler that never subscribed to the channel.
C21_HandlersInSubscriptionOrder ==
    (lastPublish.channel # "" /\ lastPublish.order # <<>>) =>
        LET Current(d) == BagIn(d.callback, lastPublish.handlers)
            calls == SelectSeq(lastPublish.delivered, Current)
        IN  /\ calls = [i \in DOMAIN lastPublish.order |->
                           [callback |-> lastPublish.order[i],
                            message |-> lastPublish.message]]
            /\ \A i \in DOMAIN lastPublish.delivered :
                   \E j \in DOMAIN listeners :
                       /\ listeners[j].channel = lastPublish.channel
                       /\ listeners[j].callback =
                              lastPublish.delivered[i].callback

C21_Witness ==
    /\ lastPublish.channel = "news"
    /\ lastPublish.order = <<"h2">>
    /\ lastPublish.delivered =
           <<[callback |-> "h2", message |-> lastPublish.message],
             [callback |-> "h2", message |-> lastPublish.message]>>

\* C22: under any interleaving of rateLimit calls that pass one limit, the
\* value stored under the counter key, when there is one, is the decimal text
\* of an integer from 1 to limit, however many calls have been admitted.
C22_StoredCountWithinLimit ==
    \A k \in TestKeys :
        store[k].present =>
            /\ parseInt(store[k].val) \in 1..limit
            /\ store[k].val = toString(parseInt(store[k].val))

C22_Witness ==
    \E k \in TestKeys :
        /\ hist[k].admitted > limit
        /\ limit = MaxLimit
        /\ store[k].present /\ store[k].val = toString(limit)

\* C23: a rejected caller is admitted again. A serialized call that starts
\* once the window has elapsed since the last admitted call on the key is
\* admitted, whether or not calls were rejected in between; and rejected
\* calls do not keep the key alive: a key on which calls are being rejected
\* comes to a state in which the next call is admitted.
C23_RejectedCallerIsReadmitted ==
    /\ []((last.key # "" /\ last.afterWindow /\ last.serial) => last.result)
    /\ \A k \in TestKeys :
           (store[k].present /\ exceeded(countOf(get(store, k)), limit))
               ~> ~exceeded(countOf(get(store, k)), limit)

C23_Witness ==
    /\ last.key # "" /\ last.afterWindow /\ last.serial
    /\ last.prevRejected
    /\ last.prev = limit
    /\ last.result
    /\ window = MaxWindow

(***************************************************************************)
(* Properties of the expiry of what is written                             *)
(***************************************************************************)
\* C24: whatever ttl or window the callers pass, 0 and the values of a request
\* body included, every counter, cache entry and session record that is in
\* the store expires.
C24_EveryWriteExpires ==
    \A k \in AllKeys : store[k].present => store[k].expires

C24_Witness ==
    /\ lastResponse.route = "POST /session/:userId"
    /\ lastResponse.status = 200
    /\ \E id \in SessionIds :
           /\ saved[id] = SessionData
           /\ store[SessionKey(id)].present
           /\ ~store[SessionKey(id)].expires

(***************************************************************************)
(* Properties of what a middleware does with its request                   *)
(***************************************************************************)
\* the calls of next() among the calls of an invocation
Nexts(calls) == Cardinality({i \in DOMAIN calls : calls[i] = "next"})

\* the responses among them
Responses(calls) == Cardinality({i \in DOMAIN calls : calls[i] # "next"})

\* the response each middleware sends itself: 429 from the limiters, the
\* cached body (200) from the cache, 503 from the health check
OwnResponse(guard) ==
    CASE guard \in {"rateLimit", "apiRateLimit"} -> {"429"}
      [] guard = "cache" -> {"200"}
      [] guard = "redisHealthCheck" -> {"503"}
      [] OTHER -> {}

\* C25: every invocation of rateLimit, apiRateLimit, cache, sessionMiddleware,
\* invalidateCache or redisHealthCheck that has ended either called next()
\* exactly once and sent nothing, or sent exactly one response (a 429, the
\* cached body, a 503) and did not call next(); never both, never neither.
C25_ExactlyOneOfNextAndResponse ==
    lastRun.guard # "" =>
        /\ lastRun.guard \in Middlewares
        /\ \/ Nexts(lastRun.calls) = 1 /\ Responses(lastRun.calls) = 0
           \/ /\ Nexts(lastRun.calls) = 0
              /\ Responses(lastRun.calls) = 1
              /\ lastRun.calls[1] \in OwnResponse(lastRun.guard)

\* a request over the limit has been answered 429 by the limiter
C25_Witness ==
    /\ lastRun = Ran("rateLimit", <<"429">>)
    /\ lastGuard.outcome = "429"

=============================================================================
